---- MODULE Spec2Model ----
(***************************************************************************)
(* Model of src/app.py: the Streamlit purchase-order processor.            *)
(*                                                                         *)
(* The program is one script that Streamlit runs again, top to bottom, on  *)
(* every interaction.  What survives a run is st.session_state             *)
(* (processed_files, aggregated_data) and the uploader widget's value      *)
(* (uploaded_files).  One action of the model is one run of the script.    *)
(*                                                                         *)
(* A page text is a sequence of tokens.  A token is a literal fragment     *)
(* (a word group, a separator, white space) or a run of digits, held as    *)
(* the number int() reads from it.  The regular expressions of the source  *)
(* are interpreted over this alphabet: literals compare token by token,    *)
(* `.*` spans any tokens but a line break, `\s*` spans white space,        *)
(* `(\d+)` is one digit run.  The Arabic literals of the source are        *)
(* written in transliteration ("ar:...").                                  *)
(*                                                                         *)
(* Python's None is the empty tuple and a present value x is <<x>>, so     *)
(* that "data or None" is comparable in every state.                       *)
(*                                                                         *)
(* Line 116 of the source misses a closing parenthesis.  Closing it after  *)
(* group(1) or at the end of the line gives the same function:             *)
(* int(None) raises TypeError when the second alternative matched, and     *)
(* the result is 0 when nothing matched.  extract_quantity below is that   *)
(* function.                                                               *)
(***************************************************************************)
EXTENDS Naturals, Sequences, FiniteSets, TLC

VARIABLES uploaded_files, processed_files, aggregated_data

vars == <<uploaded_files, processed_files, aggregated_data>>

\* ---------------------------------------------------------------- bounds
\* Most pages of one uploaded document (single-document runs, SpecDoc).
MaxPages == 2
\* Most files of one upload (Spec).
MaxFiles == 3

\* ------------------------------------------------------- Python's values
None == <<>>
Some(x) == <<x>>
Val(o) == o[1]

\* F applied to the value of x: Python evaluates an expression once, when it
\* binds the name
Bind(x, F(_)) == CHOOSE r \in {F(v) : v \in {x}} : TRUE

\* -------------------------------------------------------------- tokens
Lit(s) == [kind |-> "lit", lit |-> s, num |-> 0]
Num(n) == [kind |-> "num", lit |-> "", num |-> n]
\* the pattern element `.*`
DotStar == [kind |-> "any", lit |-> ".*", num |-> 0]

SP == Lit(" ")
NL == Lit("\n")
COLON == Lit(":")
SEMI == Lit(";")
\* the labels of the quantity pattern: the Arabic word and "Quantity"
AR_QUANTITY == Lit("ar:alkmyh")
EN_QUANTITY == Lit("Quantity")

\* str.lower() on the literals of the alphabet: re.IGNORECASE compares case-folded
lower(s) ==
  CASE s = "Enteral powder" -> "enteral powder"
    [] s = "ENTERAL POWDER" -> "enteral powder"
    [] s = "Cachectic" -> "cachectic"
    [] s = "Amino Acid" -> "amino acid"
    [] s = "Hepatic" -> "hepatic"
    [] s = "Can" -> "can"
    [] s = "CAN" -> "can"
    [] s = "Lactose free" -> "lactose free"
    [] s = "Low Cholesterol" -> "low cholesterol"
    [] s = "Quantity" -> "quantity"
    [] s = "QUANTITY" -> "quantity"
    [] OTHER -> s

\* \s matches a blank and a line break
IsSpace(tok) == tok \in {SP, NL}

\* ------------------------------------------------------- the catalog
\* PRODUCT_MAP in insertion order, which is the order dict.items() iterates in
PRODUCT_MAP ==
  << [product |-> "NeoMune",
      patterns |-> << <<Lit("ar:nw mywn")>>,
                      <<Lit("Enteral powder"), DotStar, Lit("cachectic")>> >>],
     [product |-> "Aminoleban Oral",
      patterns |-> << <<Lit("ar:aminwlyban")>>,
                      <<Lit("Amino Acid"), DotStar, Lit("Hepatic"), DotStar, Lit("Can")>> >>],
     [product |-> "Blendera MF",
      patterns |-> << <<Lit("ar:blyndra")>>,
                      <<Lit("Lactose free"), DotStar, Lit("low cholesterol")>> >>] >>

\* ------------------------------------------------------- re.search
\* Whether `pattern` matches `text` starting at token i.  `.*` takes any run of
\* tokens that holds no line break; a literal takes one token, compared
\* case-folded when ignorecase.
RECURSIVE MatchFrom(_, _, _, _)
MatchFrom(pattern, text, i, ignorecase) ==
  IF pattern = <<>> THEN TRUE
  ELSE IF Head(pattern) = DotStar
    THEN \E j \in i..(Len(text) + 1) :
           /\ \A k \in i..(j - 1) : text[k] # NL
           /\ MatchFrom(Tail(pattern), text, j, ignorecase)
    ELSE /\ i <= Len(text)
         /\ text[i].kind = "lit"
         /\ IF ignorecase
              THEN lower(text[i].lit) = lower(Head(pattern).lit)
              ELSE text[i].lit = Head(pattern).lit
         /\ MatchFrom(Tail(pattern), text, i + 1, ignorecase)

\* re.search(pattern, text, re.IGNORECASE) is not None
re_search(pattern, text) ==
  \E i \in 1..(Len(text) + 1) : MatchFrom(pattern, text, i, TRUE)

\* ------------------------------------------------------- extract_text
\* page.get_text(), or "" when it raises
extract_text(page) ==
  IF page.readable THEN page.text ELSE <<>>

\* ------------------------------------------------------- identify_product
RECURSIVE identify_from(_, _)
identify_from(k, text) ==
  IF k > Len(PRODUCT_MAP) THEN None
  ELSE IF \E j \in 1..Len(PRODUCT_MAP[k].patterns) :
            re_search(PRODUCT_MAP[k].patterns[j], text)
    THEN Some(PRODUCT_MAP[k].product)
    ELSE identify_from(k + 1, text)

\* the last entry that matches, not the first
identify_product_last(text) ==
  LET hit == {k \in 1..Len(PRODUCT_MAP) :
                \E j \in 1..Len(PRODUCT_MAP[k].patterns) :
                  re_search(PRODUCT_MAP[k].patterns[j], text)}
  IN IF hit = {} THEN None
     ELSE Some(PRODUCT_MAP[CHOOSE k \in hit : \A m \in hit : m <= k].product)

identify_product(text) == identify_from(1, text)

\* ------------------------------------------------------- extract_quantity
\* the first index >= i of text that is not white space (Len(text)+1 when none)
RECURSIVE SkipSpace(_, _)
SkipSpace(text, i) ==
  IF i <= Len(text) /\ IsSpace(text[i]) THEN SkipSpace(text, i + 1) ELSE i

\* label \s* [:;]? \s* (\d+) matched at token i: the index of the digit run, or 0
LabelledNumberAt(text, i, label) ==
  IF text[i] # label THEN 0
  ELSE Bind(SkipSpace(text, i + 1), LAMBDA b :
         Bind(IF b <= Len(text) /\ text[b] \in {COLON, SEMI} THEN b + 1 ELSE b, LAMBDA c :
           Bind(SkipSpace(text, c), LAMBDA d :
             IF d <= Len(text) /\ text[d].kind = "num" THEN d ELSE 0)))

\* The match of the two-alternative quantity pattern at token i, as its groups
\* (the group of the alternative that did not match is None), or None.
match_at(text, i) ==
  Bind(LabelledNumberAt(text, i, AR_QUANTITY), LAMBDA a :
    IF a # 0 THEN Some([group1 |-> Some(text[a].num), group2 |-> None])
    ELSE Bind(LabelledNumberAt(text, i, EN_QUANTITY), LAMBDA e :
           IF e # 0 THEN Some([group1 |-> None, group2 |-> Some(text[e].num)])
           ELSE None))

\* re.search of the quantity pattern (no flags: case matters): the leftmost match
RECURSIVE quantity_search(_, _)
quantity_search(text, i) ==
  IF i > Len(text) THEN None
  ELSE Bind(match_at(text, i), LAMBDA m :
         IF m # None THEN m ELSE quantity_search(text, i + 1))

\* int(match.group(1)) if match else 0.  int(None) raises TypeError.
extract_quantity(text) ==
  Bind(quantity_search(text, 1), LAMBDA match :
    IF match # None
      THEN IF Val(match).group1 # None
             THEN [raised |-> FALSE, value |-> Val(Val(match).group1)]
             ELSE [raised |-> TRUE, value |-> 0]
      ELSE [raised |-> FALSE, value |-> 0])

\* ------------------------------------------------------- the pages
Page(readable, text) == [readable |-> readable, text |-> text]

\* the Arabic name of NeoMune, the Arabic quantity label, 25
PageNeoMune ==
  Page(TRUE, <<Lit("ar:nw mywn"), NL, AR_QUANTITY, COLON, SP, Num(25)>>)
\* the Arabic name of Blendera MF first, then the English description of
\* NeoMune in another case; the quantity is stated, and is 0
PageTwoProductsZero ==
  Page(TRUE, <<Lit("ar:blyndra"), SP, Lit("ENTERAL POWDER"), SP, Lit("Cachectic"),
               NL, AR_QUANTITY, SP, Num(0)>>)
\* the descriptions of Blendera MF and of Aminoleban Oral; no quantity field
PageAminolebanNoQuantity ==
  Page(TRUE, <<Lit("Lactose free"), SP, Lit("Low Cholesterol"), NL,
               Lit("Amino Acid"), SP, Lit("Hepatic"), SP, Lit("CAN")>>)
\* NeoMune with the English quantity label
PageNeoMuneEnglish ==
  Page(TRUE, <<Lit("ar:nw mywn"), NL, EN_QUANTITY, COLON, SP, Num(5)>>)
\* no product, and an English quantity field
PageNoProduct ==
  Page(TRUE, <<Lit("Delivery note"), NL, EN_QUANTITY, SEMI, Num(5)>>)
\* a page whose get_text raises; its text would have matched
PageUnreadable ==
  Page(FALSE, <<Lit("ar:nw mywn"), NL, AR_QUANTITY, COLON, SP, Num(25)>>)
\* the description of NeoMune broken over two lines: `.` stops at the line break
PageBrokenLine ==
  Page(TRUE, <<Lit("Enteral powder"), NL, Lit("cachectic"), SP, AR_QUANTITY, Num(4)>>)

PageKinds ==
  {PageNeoMune, PageTwoProductsZero, PageAminolebanNoQuantity, PageNeoMuneEnglish,
   PageNoProduct, PageUnreadable, PageBrokenLine}

\* ------------------------------------------------------- the clock
\* The instants datetime.now() can return during a run, in the order of time:
\* the last second of one day and the first of the next.
Clock ==
  << [date |-> "2025-06-30", hms |-> "235959"],
     [date |-> "2025-07-01", hms |-> "000000"] >>

\* The readings of the clock taken for one document: strftime("%H%M%S") for
\* the order number, then strftime("%Y-%m-%d") for the date.
Readings == {r \in [po : 1..Len(Clock), date : 1..Len(Clock)] : r.po <= r.date}

\* The readings for a run over n files: time does not go back between documents.
Stamps(n) ==
  {st \in [1..n -> Readings] :
     \A i \in 1..n : \A j \in 1..n : i < j => st[i].date <= st[j].po}

\* ------------------------------------------------------- process_pdf
\* x or 10
or_default(x) == IF x = 0 THEN 10 ELSE x

\* `if product:` -- None and the empty string are false
product_found(product) == product # None /\ Val(product) # ""

\* The body of the page loop on one page: the product identified, and, under
\* `if product:`, whether extract_quantity raised and the quantity appended.
page_body(page) ==
  Bind(extract_text(page), LAMBDA text :
    Bind(identify_product(text), LAMBDA product :
      IF product_found(product)
        THEN Bind(extract_quantity(text), LAMBDA q :
               [product |-> product, raised |-> q.raised,
                quantity |-> or_default(q.value)])
        ELSE [product |-> product, raised |-> FALSE, quantity |-> 0]))

\* the body of the page loop, tabulated over the pages of the model
page_bodies == [page \in PageKinds |-> page_body(page)]

\* The page loop from page i on, with the line items appended so far.  If
\* extract_quantity raises, the loop is left with the exception.
RECURSIVE page_loop(_, _, _)
page_loop(pages, i, summary_items) ==
  IF i > Len(pages) THEN [raised |-> FALSE, summary_items |-> summary_items]
  ELSE Bind(page_bodies[pages[i]], LAMBDA body :
         IF product_found(body.product)
           THEN IF body.raised
                  THEN [raised |-> TRUE, summary_items |-> summary_items]
                  ELSE Bind(Append(summary_items,
                                   [item_name |-> Val(body.product),
                                    quantity |-> body.quantity]),
                            LAMBDA appended : page_loop(pages, i + 1, appended))
           ELSE page_loop(pages, i + 1, summary_items))

\* the results dict as process_pdf builds it before the page loop
new_results(now) ==
  [po_number |-> "DEMO-" \o Clock[now.po].hms,
   date |-> Clock[now.date].date,
   hospital_data |-> [name |-> "Demo Hospital", request_no |-> "DEMO-REQ"],
   summary_items |-> <<>>,
   ocr_pages |-> <<>>]

\* what is left of a document whose page loop raised: the items so far
process_pdf_partial(file, now) ==
  IF ~file.wellformed THEN None
  ELSE Bind(page_loop(file.pages, 1, <<>>), LAMBDA loop :
         Some([new_results(now) EXCEPT !.summary_items = loop.summary_items]))

\* process_pdf: the results, or None when fitz.open or a page raised
process_pdf(file, now) ==
  IF ~file.wellformed THEN None
  ELSE Bind(page_loop(file.pages, 1, <<>>), LAMBDA loop :
         IF loop.raised THEN None
         ELSE Some([new_results(now) EXCEPT !.summary_items = loop.summary_items]))

\* ------------------------------------------------------- the batch loop
\* `if result:` -- None and the empty dict are false; the results dict has five keys
result_ok(result) == result # None

\* the entry appended to processed_data for one uploaded file
processed_entry(uploaded_file, now) ==
  Bind(process_pdf(uploaded_file, now), LAMBDA result :
    IF result_ok(result)
      THEN [file_name |-> uploaded_file.name, data |-> result, error |-> None]
      ELSE [file_name |-> uploaded_file.name, data |-> None,
            error |-> Some("Processing failed")])

process_batch(files, stamps) ==
  [i \in 1..Len(files) |-> processed_entry(files[i], stamps[i])]

\* any(pd['data'] for pd in processed_data)
any_data(processed_data) ==
  \E i \in 1..Len(processed_data) : result_ok(processed_data[i].data)

\* ------------------------------------------------------- Python dicts
\* A dict is the sequence of its (key, value) pairs in insertion order.
dict_keys(d) == {d[i].key : i \in 1..Len(d)}

\* d.get(k, default)
dict_get(d, k, default) ==
  IF k \in dict_keys(d)
    THEN (CHOOSE e \in {d[i] : i \in 1..Len(d)} : e.key = k).value
    ELSE default

\* d[k] = v
dict_set(d, k, v) ==
  IF k \in dict_keys(d)
    THEN [i \in 1..Len(d) |-> IF d[i].key = k THEN [key |-> k, value |-> v] ELSE d[i]]
    ELSE Append(d, [key |-> k, value |-> v])

\* rec.get(k, default) on a record
Get(rec, k, default) == IF k \in DOMAIN rec THEN rec[k] ELSE default

\* ------------------------------------------------------- the report
\* a row {"Item": k, "Total Quantity": v}
total_row(k, v) == ("Item" :> k) @@ ("Total Quantity" :> v)

\* d[item_name] = quantity for every item: the last one wins
RECURSIVE overwrite_items(_, _)
overwrite_items(d, items) ==
  IF items = <<>> THEN d
  ELSE Bind(dict_set(d, Head(items).item_name, Head(items).quantity),
            LAMBDA d2 : overwrite_items(d2, Tail(items)))

\* d[item_name] = d.get(item_name, 0) + quantity for every item of one document
RECURSIVE add_items(_, _)
add_items(d, items) ==
  IF items = <<>> THEN d
  ELSE Bind(dict_set(d, Head(items).item_name,
                     dict_get(d, Head(items).item_name, 0) + Head(items).quantity),
            LAMBDA d2 : add_items(d2, Tail(items)))

\* consolidated_items after the loop over processed_data
RECURSIVE consolidate(_, _)
consolidate(d, processed_data) ==
  IF processed_data = <<>> THEN d
  ELSE Bind(IF result_ok(Head(processed_data).data)
              THEN add_items(d, Val(Head(processed_data).data).summary_items)
              ELSE d,
            LAMBDA d2 : consolidate(d2, Tail(processed_data)))

\* one row of hospital_distribution
distribution_row(data, item) ==
  ("PO Number" :> Get(data, "po_number", "[MISSING]"))
  @@ ("Date" :> Get(data, "date", "[MISSING]"))
  @@ ("Hospital" :> Get(data.hospital_data, "name", "[MISSING]"))
  @@ ("Item" :> item.item_name)
  @@ ("Quantity" :> item.quantity)
  @@ ("Request No" :> Get(data.hospital_data, "request_no", "[MISSING]"))

\* the first line item of the document only
first_row_only(data) ==
  IF data.summary_items = <<>> THEN <<>>
  ELSE <<distribution_row(data, data.summary_items[1])>>

\* the rows one document adds to hospital_distribution
document_rows(data) ==
  [i \in 1..Len(data.summary_items) |-> distribution_row(data, data.summary_items[i])]

\* hospital_distribution after the loop over processed_data
RECURSIVE distribute(_)
distribute(processed_data) ==
  IF processed_data = <<>> THEN <<>>
  ELSE (IF result_ok(Head(processed_data).data)
          THEN document_rows(Val(Head(processed_data).data))
          ELSE <<>>)
       \o distribute(Tail(processed_data))

\* hospital_totals after the loop over hospital_distribution
RECURSIVE total_rows(_, _)
total_rows(d, hospital_distribution) ==
  IF hospital_distribution = <<>> THEN d
  ELSE Bind(dict_set(d, Head(hospital_distribution)["Item"],
                     dict_get(d, Head(hospital_distribution)["Item"], 0)
                       + Head(hospital_distribution)["Quantity"]),
            LAMBDA d2 : total_rows(d2, Tail(hospital_distribution)))

\* sum(d.values())
RECURSIVE sum_values(_)
sum_values(d) == IF d = <<>> THEN 0 ELSE Head(d).value + sum_values(Tail(d))

\* [{"Item": k, "Total Quantity": v} for k, v in d.items()]
item_rows(d) == [i \in 1..Len(d) |-> total_row(d[i].key, d[i].value)]

\* a grand total that counts the rows
grand_total_count(hospital_totals) ==
  <<total_row("GRAND TOTAL", Len(hospital_totals))>>

\* [{"Item": "GRAND TOTAL", "Total Quantity": sum(hospital_totals.values())}]
grand_total(hospital_totals) ==
  <<total_row("GRAND TOTAL", sum_values(hospital_totals))>>

\* the dict stored in st.session_state.aggregated_data
\* the three tables, from the three values the aggregation block computed
report(consolidated_items, hospital_distribution, hospital_totals) ==
  [consolidated_en_items |-> item_rows(consolidated_items),
   multi_file_hospital_distribution |-> hospital_distribution,
   hospital_dist_item_totals |-> item_rows(hospital_totals) \o grand_total(hospital_totals)]

aggregate(processed_data) ==
  Bind(consolidate(<<>>, processed_data), LAMBDA consolidated_items :
    Bind(distribute(processed_data), LAMBDA hospital_distribution :
      Bind(total_rows(<<>>, hospital_distribution), LAMBDA hospital_totals :
        report(consolidated_items, hospital_distribution, hospital_totals))))

\* ------------------------------------------------------- the uploads
File(name, wellformed, pages) ==
  [name |-> name, wellformed |-> wellformed, pages |-> pages]

\* every sequence over S of length at most n
SeqsUpTo(S, n) == UNION {[1..k -> S] : k \in 0..n}

\* the documents of the single-document runs: every page sequence, and a
\* byte stream that is no PDF
Documents ==
  {File("po.pdf", TRUE, pages) : pages \in SeqsUpTo(PageKinds, MaxPages)}
  \cup {File("po.pdf", FALSE, <<PageNeoMune>>)}

\* the files the uploads of several files are made of
SampleFiles ==
  {File("corrupt.pdf", FALSE, <<PageNeoMune>>),
   File("neomune.pdf", TRUE, <<PageNeoMune>>),
   File("scan.pdf", TRUE, <<PageUnreadable, PageTwoProductsZero>>),
   File("mixed.pdf", TRUE, <<PageTwoProductsZero, PageAminolebanNoQuantity, PageNeoMune>>),
   File("english.pdf", TRUE, <<PageNeoMune, PageNeoMuneEnglish>>),
   File("cover.pdf", TRUE, <<PageNoProduct>>)}

\* ------------------------------------------------------- the script
\* a new session: lines 92-95
Init ==
  /\ uploaded_files = <<>>
  /\ processed_files = <<>>
  /\ aggregated_data = None

\* One run of the script with the uploader holding `files`.
RunScript(files, stamps) ==
  /\ uploaded_files' = files
  /\ IF files # <<>>
       THEN \E processed_data \in {process_batch(files, stamps)} :
              /\ processed_files' = processed_data
              /\ aggregated_data' =
                   IF any_data(processed_data)
                     THEN Some(aggregate(processed_data))
                     ELSE aggregated_data
       ELSE UNCHANGED <<processed_files, aggregated_data>>

\* The uploader shows its files as a list: the user adds a file to it, or
\* removes one of its files, and every change runs the script with the new list.
AddFile(file, most) ==
  /\ Len(uploaded_files) < most
  /\ \E stamps \in Stamps(Len(uploaded_files) + 1) :
       RunScript(Append(uploaded_files, file), stamps)

RemoveFile(i) ==
  /\ i \in 1..Len(uploaded_files)
  /\ \E stamps \in Stamps(Len(uploaded_files) - 1) :
       RunScript(SubSeq(uploaded_files, 1, i - 1)
                   \o SubSeq(uploaded_files, i + 1, Len(uploaded_files)),
                 stamps)

\* any other interaction (the slider, the export button) runs the script again
Rerun ==
  \E stamps \in Stamps(Len(uploaded_files)) : RunScript(uploaded_files, stamps)

\* sessions that upload the sample files, up to MaxFiles at a time
Next ==
  \/ \E file \in SampleFiles : AddFile(file, MaxFiles)
  \/ \E i \in 1..MaxFiles : RemoveFile(i)
  \/ Rerun

Spec == Init /\ [][Next]_vars

\* sessions that upload one document at a time, of up to MaxPages pages
NextDoc ==
  \/ \E file \in Documents : AddFile(file, 1)
  \/ RemoveFile(1)
  \/ Rerun

SpecDoc == Init /\ [][NextDoc]_vars

\* ======================================================= the claims
\* ---- vocabulary of the claims, over the inputs and the tables
\* the catalog entries with a pattern that matches text
MatchingEntries(text) ==
  {k \in 1..Len(PRODUCT_MAP) :
     \E j \in 1..Len(PRODUCT_MAP[k].patterns) : re_search(PRODUCT_MAP[k].patterns[j], text)}

\* the product of the first matching entry in catalog order, or None
FirstEntry(text) ==
  IF MatchingEntries(text) = {} THEN None
  ELSE Some(PRODUCT_MAP[CHOOSE k \in MatchingEntries(text) :
                          \A m \in MatchingEntries(text) : k <= m].product)

CatalogNames == {PRODUCT_MAP[k].product : k \in 1..Len(PRODUCT_MAP)}

\* the page's text can be read and a catalog entry matches it
Matched(page) == page.readable /\ MatchingEntries(page.text) # {}

MatchedPages(file) == SelectSeq(file.pages, Matched)

\* the positions of text where a quantity label is followed by a number
QuantityFields(text, label) ==
  {i \in 1..Len(text) : LabelledNumberAt(text, i, label) # 0}

NoQuantityField(text) ==
  QuantityFields(text, AR_QUANTITY) \cup QuantityFields(text, EN_QUANTITY) = {}

\* text has one quantity field, with this label, and it states n
OnlyField(text, label, n) ==
  /\ Cardinality(QuantityFields(text, AR_QUANTITY) \cup QuantityFields(text, EN_QUANTITY)) = 1
  /\ \E i \in QuantityFields(text, label) : text[LabelledNumberAt(text, i, label)].num = n

\* the document cannot be processed: it is no PDF, or the quantity of one of
\* its matched pages cannot be read
Fails(file) ==
  \/ ~file.wellformed
  \/ \E k \in 1..Len(file.pages) :
       Matched(file.pages[k]) /\ extract_quantity(file.pages[k].text).raised

\* the entries of the last run belong to the files in the uploader
Processed == uploaded_files # <<>>

Succeeded(i) == processed_files[i].data # None

ItemsOf(i) == Val(processed_files[i].data).summary_items

RECURSIVE SumOf(_, _)
SumOf(rows, column) ==
  IF rows = <<>> THEN 0 ELSE Head(rows)[column] + SumOf(Tail(rows), column)

NotGrandTotal(row) == row["Item"] # "GRAND TOTAL"

ItemNames(rows) == {rows[i]["Item"] : i \in 1..Len(rows)}

Consolidated == Val(aggregated_data).consolidated_en_items
Distribution == Val(aggregated_data).multi_file_hospital_distribution
ItemTotals == Val(aggregated_data).hospital_dist_item_totals

\* the line items of the entries before entry i that hold a result
RECURSIVE ItemsBefore(_)
ItemsBefore(i) ==
  IF i <= 1 THEN 0
  ELSE ItemsBefore(i - 1) + (IF Succeeded(i - 1) THEN Len(ItemsOf(i - 1)) ELSE 0)

\* ---- C1
\* C1: whenever a report is held, the consolidated-items table and the
\* item-totals table without its GRAND TOTAL row hold the same item names, the
\* same quantity for every item, and so the same sum of quantities.
C1_TablesAgree ==
  aggregated_data # None =>
    LET totals == SelectSeq(ItemTotals, NotGrandTotal)
    IN /\ ItemNames(Consolidated) = ItemNames(totals)
       /\ \A i \in 1..Len(Consolidated) : \A j \in 1..Len(totals) :
            Consolidated[i]["Item"] = totals[j]["Item"]
              => Consolidated[i]["Total Quantity"] = totals[j]["Total Quantity"]
       /\ SumOf(Consolidated, "Total Quantity") = SumOf(totals, "Total Quantity")

\* a report of two documents with two items, one of them summed over both documents
C1_Witness ==
  /\ aggregated_data # None
  /\ Processed
  /\ Cardinality({i \in 1..Len(processed_files) : Succeeded(i)}) >= 2
  /\ Len(Consolidated) >= 2
  /\ \E i \in 1..Len(Consolidated) :
       /\ Cardinality({j \in 1..Len(Distribution) :
                         Distribution[j]["Item"] = Consolidated[i]["Item"]}) >= 2
       /\ \E j \in 1..Len(Distribution) :
            /\ Distribution[j]["Item"] = Consolidated[i]["Item"]
            /\ Distribution[j]["Quantity"] < Consolidated[i]["Total Quantity"]

\* ---- C2
\* C2: whenever a report is held, its item-totals table has exactly one row
\* named GRAND TOTAL, that row is the last one, and its quantity is the sum of
\* the quantities of all the other rows.
C2_GrandTotal ==
  aggregated_data # None =>
    /\ Len(ItemTotals) >= 1
    /\ \A i \in 1..Len(ItemTotals) :
         (ItemTotals[i]["Item"] = "GRAND TOTAL") <=> (i = Len(ItemTotals))
    /\ ItemTotals[Len(ItemTotals)]["Total Quantity"]
         = SumOf(SubSeq(ItemTotals, 1, Len(ItemTotals) - 1), "Total Quantity")

\* a report with two item rows of different quantities before the grand total
C2_Witness ==
  /\ aggregated_data # None
  /\ Len(ItemTotals) = 3
  /\ ItemTotals[1]["Total Quantity"] # ItemTotals[2]["Total Quantity"]
  /\ ItemTotals[3]["Total Quantity"] > ItemTotals[1]["Total Quantity"]

\* ---- C3
\* the report shows nothing: no report, or empty tables with at most a grand
\* total of zero
ReportEmpty ==
  \/ aggregated_data = None
  \/ /\ Consolidated = <<>>
     /\ Distribution = <<>>
     /\ \A i \in 1..Len(ItemTotals) :
          ItemTotals[i]["Item"] = "GRAND TOTAL" /\ ItemTotals[i]["Total Quantity"] = 0

\* C3: after a run over no document, or over documents that all failed, the
\* report held for display and export is empty, whatever the runs before it.
C3_EmptyBatchEmptyReport ==
  (uploaded_files = <<>> \/ \A i \in 1..Len(processed_files) : ~Succeeded(i))
    => ReportEmpty

\* ---- C4
\* C4: in a document result, the line item of a page that states no quantity
\* carries no non-zero number, and the line item of a page that states the
\* quantity 0 differs in quantity from it.
C4_ZeroAndAbsentDiffer ==
  Processed =>
    \A i \in 1..Len(processed_files) :
      Succeeded(i) =>
        LET pages == MatchedPages(uploaded_files[i])
            at == 1..Len(ItemsOf(i)) \cap 1..Len(pages)
        IN /\ \A k \in at :
                NoQuantityField(pages[k].text) => ItemsOf(i)[k].quantity \notin Nat \ {0}
           /\ \A k \in at : \A l \in at :
                (OnlyField(pages[k].text, AR_QUANTITY, 0) /\ NoQuantityField(pages[l].text))
                  => ItemsOf(i)[k].quantity # ItemsOf(i)[l].quantity

\* ---- C5
\* C5: on a text whose one quantity field has the Arabic or the English label
\* and states n, extract_quantity returns n; and a readable page with an
\* identified product and an English-labelled quantity n does not fail its
\* document and gives a line item of quantity n.
C5_EitherLabelAccepted ==
  Processed =>
    \A i \in 1..Len(uploaded_files) :
      \A k \in 1..Len(uploaded_files[i].pages) :
        LET page == uploaded_files[i].pages[k]
        IN \A n \in 1..25 :
             /\ \A label \in {AR_QUANTITY, EN_QUANTITY} :
                  OnlyField(page.text, label, n)
                    => extract_quantity(page.text) = [raised |-> FALSE, value |-> n]
             /\ (/\ uploaded_files[i].wellformed
                 /\ Len(uploaded_files[i].pages) = 1
                 /\ Matched(page)
                 /\ OnlyField(page.text, EN_QUANTITY, n))
                  => /\ Succeeded(i)
                     /\ ItemsOf(i) = <<[item_name |-> Val(FirstEntry(page.text)),
                                        quantity |-> n]>>

\* ---- C6
\* C6: identify_product returns the product of the first catalog entry, in
\* catalog order, that has a pattern matching the text, and None exactly when
\* no entry has one; the line items of a document result are named so.
C6_FirstCatalogEntryWins ==
  \A i \in 1..Len(uploaded_files) :
    /\ \A k \in 1..Len(uploaded_files[i].pages) :
         identify_product(uploaded_files[i].pages[k].text)
           = FirstEntry(uploaded_files[i].pages[k].text)
    /\ (Processed /\ Succeeded(i)) =>
         LET pages == MatchedPages(uploaded_files[i])
         IN /\ Len(ItemsOf(i)) = Len(pages)
            /\ \A k \in 1..Len(pages) :
                 ItemsOf(i)[k].item_name = Val(FirstEntry(pages[k].text))

\* a document result with a line item from a page that two entries match, named
\* after the earlier entry, and a page that no entry matches
C6_Witness ==
  /\ Processed
  /\ \E i \in 1..Len(uploaded_files) :
       /\ Succeeded(i)
       /\ \E k \in 1..Len(uploaded_files[i].pages) :
            /\ uploaded_files[i].pages[k].readable
            /\ identify_product(uploaded_files[i].pages[k].text) = None
       /\ \E k \in 1..Len(ItemsOf(i)) :
            LET text == MatchedPages(uploaded_files[i])[k].text
            IN /\ Cardinality(MatchingEntries(text)) >= 2
               /\ \E m \in MatchingEntries(text) :
                    /\ PRODUCT_MAP[m].product = ItemsOf(i)[k].item_name
                    /\ \A o \in MatchingEntries(text) : m <= o

\* ---- C7
\* the item names the documents that can be processed put in the report, in order
RECURSIVE ExpectedItemNames(_)
ExpectedItemNames(files) ==
  IF files = <<>> THEN <<>>
  ELSE (IF Fails(Head(files)) THEN <<>>
        ELSE [k \in 1..Len(MatchedPages(Head(files))) |->
                Val(FirstEntry(MatchedPages(Head(files))[k].text))])
       \o ExpectedItemNames(Tail(files))

\* C7: after a run over uploaded files, the outcomes are one per file in upload
\* order, each holds a result or a failure reason and never both or neither,
\* exactly the documents that cannot be processed hold the failure (the ones
\* after them are processed), and the report's rows come from the processed
\* documents alone.
C7_FailureAbortsOneDocument ==
  Processed =>
    /\ Len(processed_files) = Len(uploaded_files)
    /\ \A i \in 1..Len(uploaded_files) :
         /\ processed_files[i].file_name = uploaded_files[i].name
         /\ (processed_files[i].data = None) # (processed_files[i].error = None)
         /\ Fails(uploaded_files[i]) <=> ~Succeeded(i)
    /\ (\E i \in 1..Len(uploaded_files) : Succeeded(i)) =>
         /\ [j \in 1..Len(Distribution) |-> Distribution[j]["Item"]]
              = ExpectedItemNames(uploaded_files)
         /\ ItemNames(Consolidated) = ItemNames(Distribution)

\* a document that is no PDF and one that fails on a later page, each followed
\* by a processed document whose rows are the whole report
C7_Witness ==
  /\ Processed
  /\ Len(uploaded_files) >= 3
  /\ ~uploaded_files[1].wellformed
  /\ \E i \in 2..Len(uploaded_files) :
       /\ uploaded_files[i].wellformed /\ ~Succeeded(i)
       /\ Matched(uploaded_files[i].pages[1])
       /\ \E j \in (i + 1)..Len(uploaded_files) :
            Succeeded(j) /\ Len(Distribution) = Len(ItemsOf(j)) /\ Len(ItemsOf(j)) >= 1

\* ---- C8
\* the per-page diagnostic notes of a document result
DiagnosticNotes(data) == data.ocr_pages

\* C8: a document whose only trouble is pages that cannot be read is processed,
\* and its result holds one diagnostic note for every such page and one line
\* item for every matched page.
C8_UnreadablePageRecorded ==
  Processed =>
    \A i \in 1..Len(uploaded_files) :
      ~Fails(uploaded_files[i]) =>
        /\ Succeeded(i)
        /\ Len(ItemsOf(i)) = Len(MatchedPages(uploaded_files[i]))
        /\ Len(DiagnosticNotes(Val(processed_files[i].data)))
             = Cardinality({k \in 1..Len(uploaded_files[i].pages) :
                              ~uploaded_files[i].pages[k].readable})

\* ---- C9
\* C9: of a document that opens, exactly the pages identify_product matches
\* give a line item: the document result holds one line item for each of them,
\* in page order, named by a catalog name, and none for the other pages,
\* whatever quantity fields those hold.
C9_LineItemIffMatched ==
  Processed =>
    \A i \in 1..Len(uploaded_files) :
      uploaded_files[i].wellformed =>
        /\ Succeeded(i)
        /\ Len(ItemsOf(i)) = Len(MatchedPages(uploaded_files[i]))
        /\ \A k \in 1..Len(ItemsOf(i)) :
             /\ ItemsOf(i)[k].item_name \in CatalogNames
             /\ Some(ItemsOf(i)[k].item_name)
                  = identify_product(MatchedPages(uploaded_files[i])[k].text)

\* ---- C10
\* C10: the hospital-distribution table has one row for every line item of
\* every document result, in batch order and then line-item order; the row
\* holds the order number, date, hospital name and request reference of its
\* document result, none of them the missing marker, and the name and
\* quantity of its line item; failed documents have no row.
C10_OneRowPerLineItem ==
  (aggregated_data # None /\ \E i \in 1..Len(processed_files) : Succeeded(i)) =>
    /\ Len(Distribution) = ItemsBefore(Len(processed_files) + 1)
    /\ \A i \in 1..Len(processed_files) :
         Succeeded(i) =>
           \A k \in 1..Len(ItemsOf(i)) :
             LET row == Distribution[ItemsBefore(i) + k]
                 data == Val(processed_files[i].data)
             IN /\ row["PO Number"] = data.po_number
                /\ row["Date"] = data.date
                /\ row["Hospital"] = data.hospital_data.name
                /\ row["Request No"] = data.hospital_data.request_no
                /\ row["Item"] = ItemsOf(i)[k].item_name
                /\ row["Quantity"] = ItemsOf(i)[k].quantity
                /\ "[MISSING]" \notin {row["PO Number"], row["Date"],
                                       row["Hospital"], row["Request No"]}

\* a failed document between two document results of different dates, the
\* second with several line items
C10_Witness ==
  /\ aggregated_data # None
  /\ Len(processed_files) = 3
  /\ Succeeded(1) /\ ~Succeeded(2) /\ Succeeded(3)
  /\ Len(ItemsOf(1)) >= 1
  /\ Len(ItemsOf(3)) >= 2
  /\ Len(Distribution) = Len(ItemsOf(1)) + Len(ItemsOf(3))
  /\ Distribution[1]["Date"] # Distribution[Len(Distribution)]["Date"]

====
